---- MODULE Spec2Model ----
(***************************************************************************)
(* The search engine of open-docs-mcp (class SearchEngine, search.ts) and  *)
(* the way the server drives it (index.ts): one engine per process, an     *)
(* index and a docStore held in memory, a snapshot file search-index.json  *)
(* written by every build and read once at startup.                        *)
(*                                                                         *)
(* Spec follows the engine through startup, builds, saves and restarts;    *)
(* SearchSpec follows the search calls of one client on one built          *)
(* generation; CrawlSpec follows the docs registry of index.ts             *)
(* (enable_doc, disable_doc, crawl_docs and docs-config.json).             *)
(*                                                                         *)
(* A JavaScript string is a sequence of one-character strings.  The        *)
(* full-text index is lunr's: the builder's inverted index and per-field   *)
(* term lists are modelled as lunr keeps them; its BM25 weights are        *)
(* replaced by raw term frequencies (integers).                            *)
(***************************************************************************)
EXTENDS Integers, Sequences, FiniteSets, TLC

VARIABLES
    phase,       \* "constructed" | "running" | "crashed": the server process
    index,       \* this.index: NoIndex (undefined) or the lunr index
    docStore,    \* this.docStore
    file,        \* search-index.json: whether it exists and its content, a sequence of chunks
    fileOrigin,  \* history: "preexisting" | "save", who last touched the file
    builds,      \* the buildIndex calls in flight, one record per caller
    nextGen,     \* history: number of the next generation to be built
    installed,   \* history: this process has installed an index (by a build or a load)
    lastSearch,  \* the search call that has just returned: its arguments and its outcome
    log,         \* history: the search calls one client has made of one generation, in order
    docConfig,   \* index.ts, let docConfig: the docs enabled for crawling
    configFile,  \* docs-config.json: whether it exists, and its crawledDocs records
    crawl        \* the crawl_docs call in flight: its force flag, its place in docs, its decisions

vars == <<phase, index, docStore, file, fileOrigin, builds, nextGen, installed,
          lastSearch, log, docConfig, configFile, crawl>>

\* what the engine's builds, loads and restarts leave alone
clientVars == <<log, docConfig, configFile, crawl>>

\* the callers whose buildIndex calls may overlap
Builders == {1, 2}

MaxGen == 2

Min(S) == CHOOSE x \in S : \A y \in S : x <= y
Max2(a, b) == IF a >= b THEN a ELSE b
Min2(a, b) == IF a <= b THEN a ELSE b

(***************************************************************************)
(* Strings                                                                 *)
(***************************************************************************)
LowerChar(c) == IF c = "F" THEN "f" ELSE IF c = "G" THEN "g" ELSE c

toLowerCase(s) == [i \in 1..Len(s) |-> LowerChar(s[i])]

\* String.prototype.indexOf: 0-based position of the first occurrence, or -1
indexOf(hay, needle) ==
    LET cands == {p \in 0..(Len(hay) - Len(needle)) :
                     SubSeq(hay, p + 1, p + Len(needle)) = needle}
    IN IF cands = {} THEN -1 ELSE Min(cands)

startsWith(s, prefix) ==
    /\ Len(prefix) <= Len(s)
    /\ SubSeq(s, 1, Len(prefix)) = prefix

\* String.prototype.slice / Array.prototype.slice, negative arguments included
slice(s, a, b) ==
    LET n == Len(s)
        from == IF a < 0 THEN Max2(n + a, 0) ELSE Min2(a, n)
        to == IF b < 0 THEN Max2(n + b, 0) ELSE Min2(b, n)
    IN IF from >= to THEN <<>> ELSE SubSeq(s, from + 1, to)

\* \w of a regular expression
IsWordChar(c) == c \in {"c", "f", "g", "F", "G"}

\* lunr.tokenizer.separator, /[\s\-]+/
IsSeparator(c) == c \in {" ", "-"}

CharCode(c) ==
    CASE c = " " -> 32 [] c = "(" -> 40 [] c = "-" -> 45 [] c = "/" -> 47
      [] c = ")" -> 41 [] c = "*" -> 42 [] c = "." -> 46
      [] c = "F" -> 70 [] c = "G" -> 71
      [] c = "c" -> 99 [] c = "f" -> 102 [] c = "g" -> 103

\* the order Array.prototype.sort gives strings
RECURSIVE StrLess(_, _)
StrLess(s, t) ==
    IF t = <<>> THEN FALSE
    ELSE IF s = <<>> THEN TRUE
    ELSE IF s[1] # t[1] THEN CharCode(s[1]) < CharCode(t[1])
    ELSE StrLess(Tail(s), Tail(t))

RECURSIVE SetToSeq(_)
SetToSeq(S) ==
    IF S = {} THEN <<>>
    ELSE LET x == CHOOSE y \in S : TRUE IN <<x>> \o SetToSeq(S \ {x})

Has(seq, x) == \E i \in 1..Len(seq) : seq[i] = x

Count(seq, x) == Cardinality({i \in 1..Len(seq) : seq[i] = x})

EmptyMap == [x \in {} |-> 0]

(***************************************************************************)
(* lunr: tokenizer and pipelines.  On the alphabet of this model the stop  *)
(* word filter and the stemmer change no token, so the build pipeline is   *)
(* the trimmer and the search pipeline is empty.                           *)
(***************************************************************************)
\* the places where a token starts: a character that is no separator, at the start of
\* the string or after a separator
TokenStarts(s) ==
    {i \in 1..Len(s) : ~IsSeparator(s[i]) /\ (i = 1 \/ IsSeparator(s[i - 1]))}

\* the place where the token that starts at i ends
TokenEnd(s, i) == Min({j \in i..Len(s) : j = Len(s) \/ IsSeparator(s[j + 1])})

RECURSIVE Slices(_, _)
Slices(s, starts) ==
    IF starts = {} THEN <<>>
    ELSE LET i == Min(starts)
         IN <<SubSeq(s, i, TokenEnd(s, i))>> \o Slices(s, starts \ {i})

\* lunr.tokenizer: lower-cases, splits at separators, drops empty slices
tokenizer(s) == Slices(toLowerCase(s), TokenStarts(s))

RECURSIVE TrimLeft(_)
TrimLeft(t) == IF t # <<>> /\ ~IsWordChar(t[1]) THEN TrimLeft(Tail(t)) ELSE t

RECURSIVE TrimRight(_)
TrimRight(t) ==
    IF t # <<>> /\ ~IsWordChar(t[Len(t)]) THEN TrimRight(SubSeq(t, 1, Len(t) - 1)) ELSE t

\* lunr.trimmer: strips leading and trailing \W
trimmer(t) == TrimRight(TrimLeft(t))

\* lunr.Pipeline.run of the build pipeline: tokens that become empty are dropped
pipelineRun(tokens) ==
    SelectSeq([i \in 1..Len(tokens) |-> trimmer(tokens[i])], LAMBDA t : t # <<>>)

(***************************************************************************)
(* lunr: the builder (lunr.Builder.add, lunr.Builder.build)                *)
(***************************************************************************)
EmptyPosting == [title |-> <<>>, content |-> <<>>]

EmptyBuilder == [invertedIndex |-> EmptyMap, fieldTermFrequencies |-> EmptyMap]

AddRef(refs, ref) == IF Has(refs, ref) THEN refs ELSE Append(refs, ref)

RECURSIVE AddTerms(_, _, _, _)
AddTerms(inv, terms, field, ref) ==
    IF terms = <<>> THEN inv
    ELSE LET t == Head(terms)
             old == IF t \in DOMAIN inv THEN inv[t] ELSE EmptyPosting
             new == [old EXCEPT ![field] = AddRef(@, ref)]
         IN AddTerms((t :> new) @@ inv, Tail(terms), field, ref)

\* term -> number of occurrences, of one field of one document
TermFrequencies(terms) ==
    [t \in {terms[i] : i \in 1..Len(terms)} |-> Count(terms, t)]

\* this.add(doc): the field's term frequencies are replaced, the postings are added to
BuilderAdd(b, doc) ==
    LET tt == pipelineRun(tokenizer(doc.title))
        ct == pipelineRun(tokenizer(doc.content))
        inv1 == AddTerms(b.invertedIndex, tt, "title", doc.path)
        inv2 == AddTerms(inv1, ct, "content", doc.path)
    IN [invertedIndex |-> inv2,
        fieldTermFrequencies |->
            (<<doc.path, "title">> :> TermFrequencies(tt))
            @@ (<<doc.path, "content">> :> TermFrequencies(ct))
            @@ b.fieldTermFrequencies]

RECURSIVE AddAll(_, _)
AddAll(b, docs) ==
    IF docs = <<>> THEN b ELSE AddAll(BuilderAdd(b, Head(docs)), Tail(docs))

\* lunr(function () { ...; docs.forEach(doc => this.add(doc)) }), tagged with its generation
lunr(docs, gen) ==
    LET b == AddAll(EmptyBuilder, docs)
    IN [defined |-> TRUE,
        gen |-> gen,
        invertedIndex |-> b.invertedIndex,
        fieldVectors |-> b.fieldTermFrequencies]

(***************************************************************************)
(* lunr: lunr.Index.search                                                 *)
(***************************************************************************)
\* the clauses of the query: its terms, split at separators and lower-cased
QueryTerms(query) == tokenizer(query)

TermFieldRefs(idx, term) ==
    IF term \notin DOMAIN idx.invertedIndex THEN <<>>
    ELSE LET p == idx.invertedIndex[term]
         IN [i \in 1..Len(p.title) |-> <<p.title[i], "title">>]
            \o [i \in 1..Len(p.content) |-> <<p.content[i], "content">>]

RECURSIVE Dedupe(_)
Dedupe(s) ==
    IF s = <<>> THEN <<>>
    ELSE LET front == Dedupe(SubSeq(s, 1, Len(s) - 1))
         IN IF Has(front, s[Len(s)]) THEN front ELSE Append(front, s[Len(s)])

RECURSIVE ConcatTermRefs(_, _)
ConcatTermRefs(idx, terms) ==
    IF terms = <<>> THEN <<>>
    ELSE TermFieldRefs(idx, Head(terms)) \o ConcatTermRefs(idx, Tail(terms))

\* Object.keys(matchingFields): the matching field refs in the order they were met
MatchingFieldRefs(idx, terms) == Dedupe(ConcatTermRefs(idx, terms))

RECURSIVE Dot(_, _)
\* queryVector . fieldVector, the query vector counting each occurrence of a term
Dot(terms, fv) ==
    IF terms = <<>> THEN 0
    ELSE (IF Head(terms) \in DOMAIN fv THEN fv[Head(terms)] ELSE 0) + Dot(Tail(terms), fv)

FieldScore(idx, terms, fieldRef) ==
    IF fieldRef \in DOMAIN idx.fieldVectors
    THEN Dot(terms, idx.fieldVectors[fieldRef])
    ELSE 0

RECURSIVE SumScores(_, _, _, _)
SumScores(idx, terms, frefs, ref) ==
    IF frefs = <<>> THEN 0
    ELSE (IF Head(frefs)[1] = ref THEN FieldScore(idx, terms, Head(frefs)) ELSE 0)
         + SumScores(idx, terms, Tail(frefs), ref)

RECURSIVE InsertByScore(_, _)
InsertByScore(sorted, r) ==
    IF sorted = <<>> THEN <<r>>
    ELSE IF Head(sorted).score >= r.score
         THEN <<Head(sorted)>> \o InsertByScore(Tail(sorted), r)
         ELSE <<r>> \o sorted

Unsorted(rs) == rs

RECURSIVE SortByScore(_)
\* results.sort((a, b) => b.score - a.score), a stable sort
SortByScore(rs) ==
    IF rs = <<>> THEN <<>>
    ELSE InsertByScore(SortByScore(SubSeq(rs, 1, Len(rs) - 1)), rs[Len(rs)])

\* this.index.search(query): one {ref, score} per matching document, best first
IndexSearch(idx, query) ==
    LET terms == QueryTerms(query)
        frefs == MatchingFieldRefs(idx, terms)
        refs == Dedupe([i \in 1..Len(frefs) |-> frefs[i][1]])
    IN SortByScore([i \in 1..Len(refs) |->
                      [ref |-> refs[i], score |-> SumScores(idx, terms, frefs, refs[i])]])

(***************************************************************************)
(* lunr: lunr.Index.prototype.toJSON and lunr.Index.load                   *)
(***************************************************************************)
RECURSIVE SortTerms(_)
\* Object.keys(...).sort()
SortTerms(S) ==
    IF S = {} THEN <<>>
    ELSE LET m == CHOOSE x \in S : \A y \in S \ {x} : StrLess(x, y)
         IN <<m>> \o SortTerms(S \ {m})

VectorToJSON(fv) ==
    LET ts == SortTerms(DOMAIN fv) IN [i \in 1..Len(ts) |-> <<ts[i], fv[ts[i]]>>]

VectorLoad(elems) ==
    [t \in {elems[i][1] : i \in 1..Len(elems)} |->
        (CHOOSE e \in {elems[i] : i \in 1..Len(elems)} : e[1] = t)[2]]

\* index.toJSON(): the field vectors and the inverted index as arrays of pairs,
\* the inverted index sorted by term
IndexToJSON(idx) ==
    LET frefs == SetToSeq(DOMAIN idx.fieldVectors)
        ts == SortTerms(DOMAIN idx.invertedIndex)
    IN [fieldVectors |->
            [i \in 1..Len(frefs) |-> <<frefs[i], VectorToJSON(idx.fieldVectors[frefs[i]])>>],
        invertedIndex |-> [i \in 1..Len(ts) |-> <<ts[i], idx.invertedIndex[ts[i]]>>]]

\* lunr.Index.load(serializedIndex), tagged with the generation it was saved from
IndexLoad(json, gen) ==
    LET fvs == {json.fieldVectors[i] : i \in 1..Len(json.fieldVectors)}
        inv == {json.invertedIndex[i] : i \in 1..Len(json.invertedIndex)}
    IN [defined |-> TRUE,
        gen |-> gen,
        invertedIndex |-> [t \in {e[1] : e \in inv} |-> (CHOOSE e \in inv : e[1] = t)[2]],
        fieldVectors |->
            [r \in {e[1] : e \in fvs} |-> VectorLoad((CHOOSE e \in fvs : e[1] = r)[2])]]

\* the document refs the index can return
IndexRefs(idx) ==
    UNION {{p.title[i] : i \in 1..Len(p.title)} \cup {p.content[i] : i \in 1..Len(p.content)} :
              p \in {idx.invertedIndex[t] : t \in DOMAIN idx.invertedIndex}}

(***************************************************************************)
(* SearchEngine: the in-memory state                                       *)
(***************************************************************************)
\* private index!: lunr.Index, before any assignment
NoIndex == [defined |-> FALSE, gen |-> 0, invertedIndex |-> EmptyMap, fieldVectors |-> EmptyMap]

\* this.docStore = {}, tagged with the generation that made it
EmptyDocStore(gen) == [gen |-> gen, entries |-> <<>>]

HasKey(store, ref) == \E i \in 1..Len(store.entries) : store.entries[i].path = ref

\* this.docStore[ref], for a key the store has
Lookup(store, ref) ==
    store.entries[CHOOSE i \in 1..Len(store.entries) : store.entries[i].path = ref]

\* this.docStore[doc.path] = doc: a key keeps the place of its first assignment
Put(store, doc) ==
    IF HasKey(store, doc.path)
    THEN [store EXCEPT !.entries =
            [i \in 1..Len(@) |-> IF @[i].path = doc.path THEN doc ELSE @[i]]]
    ELSE [store EXCEPT !.entries = Append(@, doc)]

RECURSIVE PutAll(_, _)
\* docs.forEach(doc => { this.docStore[doc.path] = doc })
PutAll(store, docs) ==
    IF docs = <<>> THEN store ELSE PutAll(Put(store, Head(docs)), Tail(docs))

OldDocStoreKept(old, docs, gen) == old

\* this.docStore = {}; docs.forEach(...): the store buildIndex installs
BuiltDocStore(old, docs, gen) == PutAll(EmptyDocStore(gen), docs)

(***************************************************************************)
(* The snapshot file.  Its text is a sequence of chunks: a head holding    *)
(* the version and the index, one chunk per docStore entry, a closing      *)
(* chunk.  A text parses only if it is exactly such a sequence.            *)
(***************************************************************************)
NoDoc == [path |-> "", title |-> <<>>, content |-> <<>>]

NoIndexJSON == [fieldVectors |-> <<>>, invertedIndex |-> <<>>]

HeadChunk(version, ijson) == [type |-> "head", version |-> version, index |-> ijson, doc |-> NoDoc]

DocChunk(doc) == [type |-> "doc", version |-> 0, index |-> NoIndexJSON, doc |-> doc]

EndChunk == [type |-> "end", version |-> 0, index |-> NoIndexJSON, doc |-> NoDoc]

\* JSON text of { version, index: this.index.toJSON(), docStore: this.docStore };
\* the version stamp identifies the generation saved
Stringify(idx, store) ==
    <<HeadChunk(idx.gen, IndexToJSON(idx))>>
    \o [i \in 1..Len(store.entries) |-> DocChunk(store.entries[i])]
    \o <<EndChunk>>

\* fs.readJson succeeds
Parses(text) ==
    /\ Len(text) >= 2
    /\ text[1].type = "head"
    /\ text[Len(text)].type = "end"
    /\ \A i \in 2..(Len(text) - 1) : text[i].type = "doc"

\* loadIndex, on a text that parses: the pair it assigns
LoadedIndex(text) == IndexLoad(text[1].index, text[1].version)

DocStoreNotRestored(text) == [gen |-> text[1].version, entries |-> <<>>]

LoadedDocStore(text) ==
    [gen |-> text[1].version,
     entries |-> [i \in 1..(Len(text) - 2) |-> text[i + 1].doc]]

\* write(fd, data) at offset 0 of a file that may have grown since this fd truncated it
Overlay(old, data) == data \o SubSeq(old, Len(data) + 1, Len(old))

NoFile == [exists |-> FALSE, text |-> <<>>]

(***************************************************************************)
(* SearchEngine.createExcerpt                                              *)
(***************************************************************************)
ExcerptRadius == 400

RECURSIVE GroupsBalanced(_, _)
GroupsBalanced(pattern, depth) ==
    IF pattern = <<>> THEN depth = 0
    ELSE IF pattern[1] = "(" THEN GroupsBalanced(Tail(pattern), depth + 1)
    ELSE IF pattern[1] = ")" THEN depth > 0 /\ GroupsBalanced(Tail(pattern), depth - 1)
    ELSE GroupsBalanced(Tail(pattern), depth)

\* new RegExp(query, 'gi') does not throw a SyntaxError
RegExpCompiles(pattern) == GroupsBalanced(pattern, 0)

\* the pattern without its group delimiters: the characters it has to match, in order
Atoms(pattern) == SelectSeq(pattern, LAMBDA c : c \notin {"(", ")"})

\* one pattern character against one character of the text, under the flag i:
\* a dot matches any character, any other character matches itself in either case
AtomMatches(a, c) == a = "." \/ LowerChar(a) = LowerChar(c)

\* the pattern matches the text from place p on
MatchesAt(s, p, atoms) ==
    /\ p + Len(atoms) - 1 <= Len(s)
    /\ \A i \in 1..Len(atoms) : AtomMatches(atoms[i], s[p + i - 1])

\* the first place at or after from where the pattern matches, 0 if there is none
NextMatch(s, atoms, from) ==
    LET ms == {p \in from..(Len(s) - Len(atoms) + 1) : MatchesAt(s, p, atoms)}
    IN IF ms = {} THEN 0 ELSE Min(ms)

RECURSIVE ReplaceFrom(_, _, _)
\* the text from place from on, with every match wrapped: matches are taken from left
\* to right and do not overlap; a pattern that matches the empty string matches
\* before every character and at the end
ReplaceFrom(s, atoms, from) ==
    LET p == NextMatch(s, atoms, from)
    IN IF p = 0 THEN SubSeq(s, from, Len(s))
       ELSE IF atoms = <<>>
       THEN <<"*", "*", "*", "*">>
            \o (IF from > Len(s) THEN <<>>
                ELSE <<s[from]>> \o ReplaceFrom(s, atoms, from + 1))
       ELSE SubSeq(s, from, p - 1)
            \o <<"*", "*">> \o SubSeq(s, p, p + Len(atoms) - 1) \o <<"*", "*">>
            \o ReplaceFrom(s, atoms, p + Len(atoms))

\* excerpt.replace(new RegExp(query, 'gi'), match => `**${match}**`)
ReplaceAll(s, atoms) == ReplaceFrom(s, atoms, 1)

\* Math.max(0, pos - 400)
WindowStart(pos) == Max2(0, pos - ExcerptRadius)

WindowEndsAtMatch(len, pos, qlen) == Min2(len, pos + ExcerptRadius)

\* Math.min(content.length, pos + query.length + 400)
WindowEnd(len, pos, qlen) == Min2(len, pos + qlen + ExcerptRadius)

createExcerpt(content, query) ==
    LET pos == indexOf(toLowerCase(content), toLowerCase(query))
        start == WindowStart(pos)
        end == WindowEnd(Len(content), pos, Len(query))
        excerpt == slice(content, start, end)
    IN IF pos >= 0
       THEN IF RegExpCompiles(query)
            THEN [threw |-> FALSE, text |-> ReplaceAll(excerpt, Atoms(query))]
            ELSE [threw |-> TRUE, text |-> <<>>]
       ELSE [threw |-> FALSE, text |-> excerpt]

(***************************************************************************)
(* SearchEngine.search                                                     *)
(***************************************************************************)
StoreIsEmpty(idx, store) == store.entries = <<>>

\* if (!this.index)
IndexMissing(idx, store) == ~idx.defined

\* the first element of the page whose callback throws, 0 if none does
FirstThrow(store, page, query) ==
    LET bad == {i \in 1..Len(page) :
                   \/ ~HasKey(store, page[i].ref)
                   \/ createExcerpt(Lookup(store, page[i].ref).content, query).threw}
    IN IF bad = {} THEN 0 ELSE Min(bad)

\* the argument docName: left out (undefined), or a string, which may be empty
NoDocName == [given |-> FALSE, name |-> <<>>]

DocName(s) == [given |-> TRUE, name |-> s]

\* if (docName): undefined and the empty string are both falsy
IsTruthy(docName) == docName.given /\ docName.name # <<>>

NameFilterSkipped(store, ranked, docName) == ranked

\* if (docName) { results = results.filter(... doc.title.startsWith(`${docName}/`)) }
FilterByName(store, ranked, docName) ==
    IF IsTruthy(docName)
    THEN SelectSeq(ranked, LAMBDA r :
             startsWith(Lookup(store, r.ref).title, docName.name \o <<"/">>))
    ELSE ranked

ScoreFilterSkipped(results, minScore) == results

\* results.filter(result => result.score >= minScore)
FilterByScore(results, minScore) == SelectSeq(results, LAMBDA r : r.score >= minScore)

PageEndsAtMaxResults(results, offset, maxResults) == slice(results, offset, maxResults)

\* results.slice(offset, offset + maxResults)
Page(results, offset, maxResults) == slice(results, offset, offset + maxResults)

search(idx, store, query, maxResults, docName, minScore, offset) ==
    IF IndexMissing(idx, store) THEN [status |-> "NotInitialized", results |-> <<>>]
    ELSE
    LET ranked == IndexSearch(idx, query)
    IN IF IsTruthy(docName) /\ \E i \in 1..Len(ranked) : ~HasKey(store, ranked[i].ref)
       THEN [status |-> "TypeError", results |-> <<>>]
       ELSE
       LET byName == FilterByName(store, ranked, docName)
           byScore == FilterByScore(byName, minScore)
           page == Page(byScore, offset, maxResults)
           t == FirstThrow(store, page, query)
       IN IF t # 0
          THEN [status |-> IF HasKey(store, page[t].ref) THEN "SyntaxError" ELSE "TypeError",
                results |-> <<>>]
          ELSE [status |-> "ok",
                results |-> [i \in 1..Len(page) |->
                    LET doc == Lookup(store, page[i].ref)
                    IN [path |-> doc.path,
                        score |-> page[i].score,
                        title |-> doc.title,
                        excerpt |-> createExcerpt(doc.content, query).text]]]

(***************************************************************************)
(* SearchEngine.loadDocsFromEntries, SearchEngine.collectDocs              *)
(***************************************************************************)
DocOf(f) == [path |-> f.path, title |-> f.title, content |-> f.content]

\* a file that is missing or cannot be read is left out
loadDocsFromEntries(files) ==
    LET kept == SelectSeq(files, LAMBDA f : f.exists /\ f.readable)
    IN [ok |-> TRUE, docs |-> [i \in 1..Len(kept) |-> DocOf(kept[i])]]

\* fs.readFile is not guarded: a file that cannot be read rejects the whole call
collectDocs(files) ==
    IF \E i \in 1..Len(files) : ~files[i].readable
    THEN [ok |-> FALSE, docs |-> <<>>]
    ELSE [ok |-> TRUE, docs |-> [i \in 1..Len(files) |-> DocOf(files[i])]]

LoadDocs(mode, files) ==
    IF mode = "entries" THEN loadDocsFromEntries(files) ELSE collectDocs(files)

(***************************************************************************)
(* Inputs                                                                  *)
(***************************************************************************)
File(p, t, c) == [path |-> p, title |-> t, content |-> c, exists |-> TRUE, readable |-> TRUE]

Unreadable(f) == [f EXCEPT !.readable = FALSE]

Missing(f) == [f EXCEPT !.exists = FALSE]

\* two entries of one docEntries list naming the same file under two titles
FileA == File("a", <<"g">>, <<"F", " ", "(", "f">>)

FileA2 == File("a", <<"f">>, <<"F", " ", "(", "f">>)

FileB == File("b", <<"c", "/", "g">>, <<"g", " ", "g">>)

FileC == File("c", <<"c", "/", "f">>, <<"f", " ", "g">>)

\* docEntries passed to buildIndex by a caller: any paths and titles, in any order
EntryLists ==
    { <<>>, <<FileA, FileA2>>, <<Unreadable(FileB), FileA>>, <<Missing(FileB), FileA>> }

\* what collectDocs finds under docsDir: titles are category/basename, paths differ
DirListings == { <<FileB, FileC>>, <<Unreadable(FileB), FileC>> }

Sources == {[mode |-> "entries", files |-> fs] : fs \in EntryLists}
           \cup {[mode |-> "collect", files |-> fs] : fs \in DirListings}

Queries == { <<"f">>, <<"g">>, <<"f", " ", "(", "f">> }

\* the calls the running server is given: the handler passes undefined for a doc_name
\* that is left out or empty
SearchArgs ==
    [query : Queries, maxResults : {2}, docName : {NoDocName, DocName(<<"c">>)},
     minScore : {0, 1}, offset : {0}]

\* the calls two engines are compared on
AllSearchArgs ==
    [query : Queries, maxResults : {1, 2}, docName : {NoDocName, DocName(<<"c">>)},
     minScore : {0, 1}, offset : {0, 1}]

SearchWith(idx, store, a) ==
    search(idx, store, a.query, a.maxResults, a.docName, a.minScore, a.offset)

\* snapshot files found at the first start: none, a truncated one, and one that
\* parses but whose docStore lacks the documents of its index
TornText == <<HeadChunk(0, IndexToJSON(lunr(<<DocOf(FileA)>>, 0)))>>

ForeignText == <<HeadChunk(0, IndexToJSON(lunr(<<DocOf(FileA)>>, 0))), EndChunk>>

PreexistingFiles ==
    { NoFile, [exists |-> TRUE, text |-> TornText], [exists |-> TRUE, text |-> ForeignText] }

(***************************************************************************)
(* The process: startup, the tool handlers, restart                        *)
(***************************************************************************)
IdleBuild ==
    [pc |-> "idle", gen |-> 0,
     built |-> [index |-> NoIndex, docStore |-> EmptyDocStore(0)], text |-> <<>>,
     error |-> "none"]

\* a call that has thrown: what is left of it is the error its caller gets
Rejected(build, error) ==
    [IdleBuild EXCEPT !.pc = "rejected", !.gen = build.gen, !.error = error]

NoSearch ==
    [called |-> FALSE, args |-> [query |-> <<>>, maxResults |-> 0, docName |-> NoDocName,
                                 minScore |-> 0, offset |-> 0],
     installed |-> FALSE, indexGen |-> 0, storeGen |-> 0,
     status |-> "none", results |-> <<>>]

\* the docs of docs.jsonl, by name, in the order loadDocs keeps them
DocNames == <<"d1", "d2">>

\* let docConfig: DocConfig = {}
NoneEnabled == [n \in {DocNames[i] : i \in 1..Len(DocNames)} |-> FALSE]

\* docs-config.json is absent
NoConfigFile == [exists |-> FALSE, enabledDocs |-> NoneEnabled, crawledDocs |-> {}]

\* no crawlAndSaveDocs call is running
IdleCrawl == [pc |-> "idle", force |-> FALSE, i |-> 1, decisions |-> <<>>]

Init ==
    /\ phase = "constructed"
    /\ index = NoIndex
    /\ docStore = EmptyDocStore(0)
    /\ file \in PreexistingFiles
    /\ fileOrigin = "preexisting"
    /\ builds = [b \in Builders |-> IdleBuild]
    /\ nextGen = 1
    /\ installed = FALSE
    /\ lastSearch = NoSearch
    /\ log = <<>>
    /\ docConfig = NoneEnabled
    /\ configFile = NoConfigFile
    /\ crawl = IdleCrawl

\* await searchEngine.initialize() at module top level: nothing else runs before it
\* ends, and an exception it lets through ends the process
Initialize ==
    /\ phase = "constructed"
    /\ IF ~file.exists
       THEN /\ phase' = "running"
            /\ UNCHANGED <<index, docStore, installed>>
       ELSE IF ~Parses(file.text)
       THEN /\ phase' = "crashed"
            /\ UNCHANGED <<index, docStore, installed>>
       ELSE /\ phase' = "running"
            /\ index' = LoadedIndex(file.text)
            /\ docStore' = LoadedDocStore(file.text)
            /\ installed' = TRUE
    /\ lastSearch' = NoSearch
    /\ UNCHANGED clientVars
    /\ UNCHANGED <<file, fileOrigin, builds, nextGen>>

Loading == {b \in Builders : builds[b].pc = "loading"}

\* buildIndex is called and suspends in loadDocsFromEntries or collectDocs; overlapping
\* calls take the callers in order
BuildStart(b) ==
    /\ phase = "running"
    /\ b = Min({c \in Builders : builds[c].pc = "idle"} \cup {b})
    /\ builds[b].pc = "idle"
    /\ nextGen + Cardinality(Loading) <= MaxGen
    /\ builds' = [builds EXCEPT ![b].pc = "loading"]
    /\ lastSearch' = NoSearch
    /\ UNCHANGED clientVars
    /\ UNCHANGED <<phase, index, docStore, file, fileOrigin, nextGen, installed>>

\* the documents are in, as the call's arguments and the disk gave them: either a
\* read failed and buildIndex rejects, or, without suspending, the index and the
\* docStore are assigned and saveIndex has called fs.writeJson, which stringifies
\* at once
BuildInstall(b) ==
    /\ phase = "running"
    /\ builds[b].pc = "loading"
    /\ \E src \in Sources :
       LET loaded == LoadDocs(src.mode, src.files)
           idx == lunr(loaded.docs, nextGen)
           store == BuiltDocStore(docStore, loaded.docs, nextGen)
       IN IF ~loaded.ok
          THEN /\ builds' = [builds EXCEPT ![b] = Rejected(@, "read")]
               /\ UNCHANGED <<index, docStore, nextGen, installed>>
          ELSE /\ index' = idx
               /\ docStore' = store
               /\ installed' = TRUE
               /\ nextGen' = nextGen + 1
               /\ builds' = [builds EXCEPT ![b] =
                     [IdleBuild EXCEPT !.pc = "opening", !.gen = nextGen,
                                       !.built = [index |-> idx, docStore |-> store],
                                       !.text = Stringify(idx, store)]]
    /\ lastSearch' = NoSearch
    /\ UNCHANGED clientVars
    /\ UNCHANGED <<phase, file, fileOrigin>>

\* fs.writeFile opens the file with flag 'w': it is created or truncated, or the
\* open fails and the save is rejected
SaveOpen(b) ==
    /\ phase = "running"
    /\ builds[b].pc = "opening"
    /\ \E ok \in BOOLEAN :
          IF ok
          THEN /\ file' = [exists |-> TRUE, text |-> <<>>]
               /\ fileOrigin' = "save"
               /\ builds' = [builds EXCEPT ![b].pc = "writing"]
          ELSE /\ builds' = [builds EXCEPT ![b] = Rejected(@, "save")]
               /\ UNCHANGED <<file, fileOrigin>>
    /\ lastSearch' = NoSearch
    /\ UNCHANGED clientVars
    /\ UNCHANGED <<phase, index, docStore, nextGen, installed>>

IndexRolledBack(idx, ok) == IF ok THEN idx ELSE NoIndex

\* the index the engine holds once the write has ended: no handler touches it
IndexAfterSave(idx, ok) == idx

\* how much of the text a write may leave in the file: all of it, or, when an I/O
\* error ends it, nothing or the head alone
WritePoints(text) == {0, 1, Len(text)}

\* the text is written from offset 0, all of it, or part of it before an I/O error
SaveWrite(b) ==
    /\ phase = "running"
    /\ builds[b].pc = "writing"
    /\ \E n \in WritePoints(builds[b].text) :
          LET ok == n = Len(builds[b].text)
          IN /\ file' = [exists |-> TRUE,
                         text |-> Overlay(file.text, SubSeq(builds[b].text, 1, n))]
             /\ index' = IndexAfterSave(index, ok)
             /\ builds' = [builds EXCEPT ![b] =
                   IF ok THEN [@ EXCEPT !.pc = "resolved"] ELSE Rejected(@, "save")]
    /\ lastSearch' = NoSearch
    /\ UNCHANGED clientVars
    /\ UNCHANGED <<phase, docStore, fileOrigin, nextGen, installed>>

\* the build_index handler answers its caller, with the result or with the error
BuildReturn(b) ==
    /\ phase = "running"
    /\ builds[b].pc \in {"resolved", "rejected"}
    /\ builds' = [builds EXCEPT ![b] = IdleBuild]
    /\ lastSearch' = NoSearch
    /\ UNCHANGED clientVars
    /\ UNCHANGED <<phase, index, docStore, file, fileOrigin, nextGen, installed>>

\* search has no await: it runs from its first line to its return in one step; it
\* changes nothing of the engine, so a second call right after it is left out
Search ==
    /\ phase = "running"
    /\ ~lastSearch.called
    /\ \E a \in SearchArgs :
          LET out == SearchWith(index, docStore, a)
          IN lastSearch' = [called |-> TRUE, args |-> a, installed |-> installed,
                            indexGen |-> index.gen, storeGen |-> docStore.gen,
                            status |-> out.status, results |-> out.results]
    /\ UNCHANGED <<phase, index, docStore, file, fileOrigin, builds, nextGen,
                   installed>>
    /\ UNCHANGED clientVars

\* the process ends, whatever it was doing, and is started again: a new engine is
\* constructed, the file is as the last process left it
Restart ==
    /\ phase \in {"running", "crashed"}
    /\ phase' = "constructed"
    /\ index' = NoIndex
    /\ docStore' = EmptyDocStore(0)
    /\ builds' = [b \in Builders |-> IdleBuild]
    /\ installed' = FALSE
    /\ lastSearch' = NoSearch
    /\ UNCHANGED clientVars
    /\ UNCHANGED <<file, fileOrigin, nextGen>>

Next ==
    \/ Initialize
    \/ \E b \in Builders : BuildStart(b)
    \/ \E b \in Builders : BuildInstall(b)
    \/ \E b \in Builders : SaveOpen(b)
    \/ \E b \in Builders : SaveWrite(b)
    \/ \E b \in Builders : BuildReturn(b)
    \/ Search
    \/ Restart

Spec == Init /\ [][Next]_vars

(***************************************************************************)
(* The search calls of one client on one generation.  The engine has built *)
(* and saved a corpus; the client calls search, again and again.           *)
(***************************************************************************)
MaxCalls == 3

Repeat(c, n) == [i \in 1..n |-> c]

\* docsDir/c/f.md, docsDir/f/c-g.md, docsDir/c/g.md, as collectDocs titles them
FileP1 == File("p1", <<"c", "/", "f">>, <<"g">>)

FileP2 == File("p2", <<"f", "/", "c", "-", "g">>, <<"c">>)

FileP3 == File("p3", <<"c", "/", "g">>,
               <<"g", " ", "G", " ", "f", ".", "g", " ", "f", "c", "g">>)

\* a document longer than the excerpt window, its only f past the window's radius
FileL1 == File("l1", <<"c", "/", "c", "-", "g">>,
               Repeat("c", ExcerptRadius + 1) \o <<" ", "f", " ">>
                   \o Repeat("c", ExcerptRadius + 1))

\* the corpora a generation is built of, with the way buildIndex was given them
Corpora ==
    { [mode |-> "collect", files |-> <<FileP1, FileP2, FileP3>>],
      [mode |-> "collect", files |-> <<FileL1>>],
      [mode |-> "entries", files |-> <<FileA, FileA2>>] }

\* what a caller of search may pass: the handler turns max_results and offset into
\* numbers and lets any of them through, negative ones too
SearchInputs ==
    [query : { <<"g">>, <<"G">>, <<"f">>, <<"f", ".", "g">>, <<"f", " ", "(", "f">> },
     maxResults : {-1, 1, 2, 3},
     docName : {NoDocName, DocName(<<>>), DocName(<<"c">>)},
     minScore : {0, 2},
     offset : {-1, 0}]

\* the same call for the next page
NextPage(a) == [a EXCEPT !.offset = a.offset + a.maxResults]

\* a call of another kind, made between two calls of a client
OtherCall ==
    [query |-> <<"g">>, maxResults |-> 1, docName |-> NoDocName, minScore |-> 0,
     offset |-> 0]

\* what the client calls next: its first call again, the page after its last one, or
\* something else
FollowUps(calls) == {calls[1].args, NextPage(calls[Len(calls)].args), OtherCall}

StoreWithExcerpts(store, results) ==
    [gen |-> store.gen,
     entries |->
        [i \in 1..Len(store.entries) |->
            LET doc == store.entries[i]
                hits == {k \in 1..Len(results) : results[k].path = doc.path}
            IN IF hits = {} THEN doc
               ELSE [doc EXCEPT !.content = results[Min(hits)].excerpt]]]

\* this.docStore after a search: the callback of map reads doc and builds a new
\* object, and search assigns to no field of the engine
StoreAfterSearch(store, results) == store

SearchInit ==
    /\ phase = "running"
    /\ \E src \in Corpora :
          LET docs == LoadDocs(src.mode, src.files).docs
          IN /\ index = lunr(docs, 1)
             /\ docStore = BuiltDocStore(EmptyDocStore(0), docs, 1)
    /\ file = [exists |-> TRUE, text |-> Stringify(index, docStore)]
    /\ fileOrigin = "save"
    /\ builds = [b \in Builders |-> IdleBuild]
    /\ nextGen = 2
    /\ installed = TRUE
    /\ lastSearch = NoSearch
    /\ log = <<>>
    /\ docConfig = NoneEnabled
    /\ configFile = NoConfigFile
    /\ crawl = IdleCrawl

\* one call of search, from its first line to its return
SearchCall ==
    /\ phase = "running"
    /\ Len(log) < MaxCalls
    /\ \E a \in (IF log = <<>> THEN SearchInputs ELSE FollowUps(log)) :
          LET out == SearchWith(index, docStore, a)
          IN /\ log' = Append(log, [args |-> a, status |-> out.status,
                                    results |-> out.results])
             /\ docStore' = StoreAfterSearch(docStore, out.results)
    /\ UNCHANGED <<phase, index, file, fileOrigin, builds, nextGen, installed, lastSearch,
                   docConfig, configFile, crawl>>

SearchNext == SearchCall

SearchSpec == SearchInit /\ [][SearchNext]_vars

(***************************************************************************)
(* The docs registry of index.ts: enable_doc, disable_doc and crawl_docs.  *)
(* The docs of docs.jsonl are loaded; what a crawl fetches is left out,    *)
(* what it decides for each doc is recorded.                               *)
(***************************************************************************)
engineVars == <<phase, index, docStore, file, fileOrigin, builds, nextGen, installed,
                lastSearch, log>>

\* docs-config.json as an earlier run of the server may have left it
ConfigFiles ==
    { NoConfigFile,
      [exists |-> TRUE, enabledDocs |-> [NoneEnabled EXCEPT !["d1"] = TRUE],
       crawledDocs |-> {}],
      [exists |-> TRUE, enabledDocs |-> [NoneEnabled EXCEPT !["d1"] = TRUE],
       crawledDocs |-> {"d1"}] }

\* loadDocConfig: docConfig = config.enabledDocs || {} when the file exists
loadDocConfig(cf) == IF cf.exists THEN cf.enabledDocs ELSE NoneEnabled

\* saveDocConfig and updateCrawledDoc write { enabledDocs: docConfig, crawledDocs }
\* with the crawledDocs of the file they found, or {} without a file
WrittenConfig(cf, enabled, crawled) ==
    [exists |-> TRUE, enabledDocs |-> enabled,
     crawledDocs |-> (IF cf.exists THEN cf.crawledDocs ELSE {}) \cup crawled]

CrawlInit ==
    /\ phase = "running"
    /\ index = NoIndex
    /\ docStore = EmptyDocStore(0)
    /\ file = NoFile
    /\ fileOrigin = "preexisting"
    /\ builds = [b \in Builders |-> IdleBuild]
    /\ nextGen = 1
    /\ installed = FALSE
    /\ lastSearch = NoSearch
    /\ log = <<>>
    /\ configFile \in ConfigFiles
    /\ docConfig = loadDocConfig(configFile)
    /\ crawl = IdleCrawl

\* the enable_doc and disable_doc handlers: docConfig[name] is set, then saveDocConfig
\* writes the file, or fails and only logs the failure
SetDoc(name, enabled) ==
    /\ docConfig' = [docConfig EXCEPT ![name] = enabled]
    /\ \E saved \in BOOLEAN :
          configFile' = IF saved THEN WrittenConfig(configFile, docConfig', {})
                        ELSE configFile
    /\ UNCHANGED crawl
    /\ UNCHANGED engineVars

EnableDoc(name) == SetDoc(name, TRUE)

DisableDoc(name) == SetDoc(name, FALSE)

\* the crawl_docs handler calls crawlAndSaveDocs(force)
CrawlStart ==
    /\ crawl.pc = "idle"
    /\ \E force \in BOOLEAN :
          crawl' = [pc |-> "running", force |-> force, i |-> 1, decisions |-> <<>>]
    /\ UNCHANGED <<docConfig, configFile>>
    /\ UNCHANGED engineVars

\* the body of the loop reaches its try block, which launches the browser: the block
\* stands inside if (!force && await fs.pathExists(configPath)), after the inner if
\* that skips a doc with a crawl record
ReachesCrawl(force, cf, name) == ~force /\ cf.exists /\ name \notin cf.crawledDocs

\* one turn of for (const doc of docs): a doc that is not enabled is skipped; a doc
\* that is crawled gets its record from updateCrawledDoc once a page of it is saved
CrawlDoc ==
    /\ crawl.pc = "running"
    /\ crawl.i <= Len(DocNames)
    /\ LET name == DocNames[crawl.i]
           crawled == docConfig[name] /\ ReachesCrawl(crawl.force, configFile, name)
       IN /\ crawl' = [crawl EXCEPT
                          !.i = @ + 1,
                          !.decisions = Append(@,
                              [name |-> name, enabled |-> docConfig[name],
                               hadRecord |-> configFile.exists
                                             /\ name \in configFile.crawledDocs,
                               crawled |-> crawled])]
          /\ \E recorded \in BOOLEAN :
                configFile' = IF crawled /\ recorded
                              THEN WrittenConfig(configFile, docConfig, {name})
                              ELSE configFile
    /\ UNCHANGED docConfig
    /\ UNCHANGED engineVars

\* the loop is over and the handler answers "Crawling completed"
CrawlReturn ==
    /\ crawl.pc = "running"
    /\ crawl.i > Len(DocNames)
    /\ crawl' = IdleCrawl
    /\ UNCHANGED <<docConfig, configFile>>
    /\ UNCHANGED engineVars

CrawlNext ==
    \/ \E n \in DOMAIN NoneEnabled : EnableDoc(n)
    \/ \E n \in DOMAIN NoneEnabled : DisableDoc(n)
    \/ CrawlStart
    \/ CrawlDoc
    \/ CrawlReturn

CrawlSpec == CrawlInit /\ [][CrawlNext]_vars

(***************************************************************************)
(* Properties                                                              *)
(***************************************************************************)
Saving == {b \in Builders : builds[b].pc \in {"opening", "writing"}}

\* C1: rebuild atomicity.  Whatever builds and searches interleave, the index and the
\* docStore the engine holds are of one generation, and every search resolved the
\* refs of an index against the docStore of that index's generation.
C1_RebuildAtomicity ==
    /\ index.defined => index.gen = docStore.gen
    /\ (lastSearch.called /\ lastSearch.status # "NotInitialized")
          => lastSearch.indexGen = lastSearch.storeGen

\* a search that returned documents of the second generation while its build was
\* still saving
C1_Witness ==
    /\ lastSearch.called
    /\ lastSearch.status = "ok"
    /\ lastSearch.results # <<>>
    /\ lastSearch.indexGen = 2
    /\ \E b \in Saving : builds[b].gen = 2

\* C2: every document ref of the in-memory index has an entry in the in-memory
\* docStore, in every state, a load of any snapshot that parses included.
C2_IndexRefsInDocStore ==
    index.defined => \A r \in IndexRefs(index) : HasKey(docStore, r)

\* C3: search fails with 'Index not initialized' exactly when this process has
\* installed no index, neither by a build nor by loading a snapshot.
C3_NotInitializedIffNoGeneration ==
    lastSearch.called => (lastSearch.status = "NotInitialized" <=> ~lastSearch.installed)

\* a search that failed so after a start without a snapshot file, and before any build
C3_Witness ==
    /\ lastSearch.called
    /\ lastSearch.status = "NotInitialized"
    /\ ~file.exists
    /\ nextGen = 1

\* C4: startup never fails, whether the snapshot file is absent or malformed.
C4_StartupNeverFails == phase # "crashed"

\* C5: a failed save leaves the generation just built in memory, unchanged, and is
\* reported to the caller of buildIndex as a rejection; while a build whose save
\* failed awaits its answer the engine still holds an index, so searches are served.
C5_SaveFailureKeepsGeneration ==
    [][\A b \in Builders :
          /\ (b \in Saving /\ builds'[b].pc = "rejected")
                => /\ index' = index
                   /\ docStore' = docStore
                   /\ builds'[b].error = "save"
          /\ builds'[b].error = "save" => index'.defined /\ index'.gen >= builds'[b].gen
      ]_vars

\* a search served from the generation whose save has just failed
C5_Witness ==
    /\ lastSearch.called
    /\ lastSearch.status = "ok"
    /\ lastSearch.results # <<>>
    /\ \E b \in Builders :
          /\ builds[b].pc = "rejected"
          /\ builds[b].error = "save"
          /\ builds[b].gen = lastSearch.indexGen

\* C6: once a save has touched the snapshot file, the file holds at every moment the
\* complete record of one generation.
C6_SnapshotAlwaysWhole ==
    fileOrigin = "save"
       => /\ file.exists
          /\ Parses(file.text)
          /\ file.text = Stringify(LoadedIndex(file.text), LoadedDocStore(file.text))

\* C7: round trip.  When a build's save has succeeded and the file holds what that
\* save wrote, an engine that loads the file holds the index and the docStore that
\* build installed, and answers every search as the building engine does.
C7_RoundTrip ==
    \A b \in Builders :
       (builds[b].pc = "resolved" /\ file.exists /\ file.text = builds[b].text)
          => /\ Parses(file.text)
             /\ LoadedIndex(file.text) = builds[b].built.index
             /\ LoadedDocStore(file.text) = builds[b].built.docStore
             /\ \A a \in AllSearchArgs :
                   SearchWith(LoadedIndex(file.text), LoadedDocStore(file.text), a)
                      = SearchWith(builds[b].built.index, builds[b].built.docStore, a)

\* a build of two documents whose save succeeded, the file holding its record
C7_Witness ==
    \E b \in Builders :
       /\ builds[b].pc = "resolved"
       /\ file.exists
       /\ file.text = builds[b].text
       /\ Len(builds[b].built.docStore.entries) = 2
       /\ index = builds[b].built.index

\* C8: no build is rejected because one of its documents cannot be read.
C8_UnreadableDocumentSkipped == \A b \in Builders : builds[b].error # "read"

\* C9: on an engine that holds a generation it built or saved itself, search raises
\* no error.
C9_SearchNeverThrows ==
    (lastSearch.called /\ lastSearch.installed /\ lastSearch.indexGen >= 1)
       => lastSearch.status = "ok"

\* the terms of a document, as the index takes them from its title and its content
TermsOfDoc(doc) ==
    LET tt == pipelineRun(tokenizer(doc.title))
        ct == pipelineRun(tokenizer(doc.content))
    IN {tt[i] : i \in 1..Len(tt)} \cup {ct[i] : i \in 1..Len(ct)}

\* C10: duplicate ids, last occurrence wins.  A search returns a document only for
\* a term of the occurrence the docStore kept, the last one.
C10_LastOccurrenceWins ==
    (lastSearch.called /\ lastSearch.status = "ok")
       => \A i \in 1..Len(lastSearch.results) :
             \E j \in 1..Len(QueryTerms(lastSearch.args.query)) :
                QueryTerms(lastSearch.args.query)[j]
                   \in TermsOfDoc(Lookup(docStore, lastSearch.results[i].path))

\* the search calls of the log that returned a result sequence
Returned == {k \in 1..Len(log) : log[k].status = "ok"}

\* the index ranking of a call's query, after the filter by category and by minScore
RankedList(a) ==
    FilterByScore(FilterByName(docStore, IndexSearch(index, a.query), a.docName), a.minScore)

\* the place of a document in a sequence of records, by the field that names it
RankPos(ranked, ref) == CHOOSE i \in 1..Len(ranked) : ranked[i].ref = ref

StorePos(store, ref) == CHOOSE i \in 1..Len(store.entries) : store.entries[i].path = ref

\* C11: no returned result has a score below the minScore of its call.
C11_NoResultBelowMinScore ==
    \A k \in Returned : \A i \in 1..Len(log[k].results) :
       log[k].results[i].score >= log[k].args.minScore

\* a call that returned a document while the ranking of its query holds one that
\* scores less than its minScore
C11_Witness ==
    \E k \in Returned :
       /\ log[k].results # <<>>
       /\ \E i \in 1..Len(IndexSearch(index, log[k].args.query)) :
             IndexSearch(index, log[k].args.query)[i].score < log[k].args.minScore

\* the scores of a result sequence never rise
Descending(results) ==
    \A i, j \in 1..Len(results) : i < j => results[i].score >= results[j].score

\* the results keep the relative order of the index ranking of their query
InRankingOrder(results, ranked) ==
    \A i, j \in 1..Len(results) :
       i < j => RankPos(ranked, results[i].path) < RankPos(ranked, results[j].path)

\* the place at which the index search first met a matching field of a document: for
\* each term of the query in turn, the title matches, then the content matches
FirstMet(query, ref) ==
    LET frefs == MatchingFieldRefs(index, QueryTerms(query))
    IN Min({i \in 1..Len(frefs) : frefs[i][1] = ref})

IsPagingSession ==
    /\ log # <<>>
    /\ log[1].args.maxResults >= 1
    /\ \A k \in 1..Len(log) :
          log[k].args = [log[1].args EXCEPT !.offset = (k - 1) * log[1].args.maxResults]
    /\ Len(log) * log[1].args.maxResults >= Len(docStore.entries)

RECURSIVE Concat(_)
Concat(pages) == IF pages = <<>> THEN <<>> ELSE Head(pages) \o Concat(Tail(pages))

\* C13: pagination consistency.  The pages of a paging session, put end to end, are
\* the full ranked list of the query under its filter and minScore: every entry once,
\* in order, none missing.
C13_PaginationConsistency ==
    (IsPagingSession /\ Returned = 1..Len(log))
       => LET all == Concat([k \in 1..Len(log) |-> log[k].results])
              full == RankedList(log[1].args)
          IN /\ Len(all) = Len(full)
             /\ \A i \in 1..Len(all) :
                   /\ all[i].path = full[i].ref
                   /\ all[i].score = full[i].score
             /\ \A i, j \in 1..Len(all) : all[i].path = all[j].path => i = j

\* three pages of one document each
C13_Witness ==
    /\ IsPagingSession
    /\ Len(log) = 3
    /\ \A k \in 1..3 : log[k].status = "ok" /\ Len(log[k].results) = 1

\* what is left of a filter string is a title prefix
HasPrefix(title, docName) == startsWith(title, docName.name \o <<"/">>)

\* a call whose page is the whole filtered list
WholeList(a) == a.offset = 0 /\ a.maxResults >= Len(docStore.entries)

\* C14, as stated: for every string passed as categoryFilter, every result's title
\* starts with the filter followed by "/", and every ranked document above minScore
\* with that prefix is kept.
C14_EveryFilterString ==
    \A k \in Returned :
       log[k].args.docName.given
          => /\ \A i \in 1..Len(log[k].results) :
                   HasPrefix(log[k].results[i].title, log[k].args.docName)
             /\ WholeList(log[k].args)
                   => \A r \in {IndexSearch(index, log[k].args.query)[i] :
                                    i \in 1..Len(IndexSearch(index, log[k].args.query))} :
                         (r.score >= log[k].args.minScore
                          /\ HasPrefix(Lookup(docStore, r.ref).title, log[k].args.docName))
                            => \E i \in 1..Len(log[k].results) :
                                  log[k].results[i].path = r.ref

\* C14, amended: the same for every non-empty string passed as categoryFilter (the
\* empty string, like a filter left out, filters nothing).
C14_NonEmptyFilterString ==
    \A k \in Returned :
       IsTruthy(log[k].args.docName)
          => /\ \A i \in 1..Len(log[k].results) :
                   HasPrefix(log[k].results[i].title, log[k].args.docName)
             /\ WholeList(log[k].args)
                   => \A r \in {IndexSearch(index, log[k].args.query)[i] :
                                    i \in 1..Len(IndexSearch(index, log[k].args.query))} :
                         (r.score >= log[k].args.minScore
                          /\ HasPrefix(Lookup(docStore, r.ref).title, log[k].args.docName))
                            => \E i \in 1..Len(log[k].results) :
                                  log[k].results[i].path = r.ref

\* a call with the filter c that returned the whole of category c, two documents, and
\* left out a ranked document of another category
C14_Witness ==
    \E k \in Returned :
       /\ log[k].args.docName = DocName(<<"c">>)
       /\ WholeList(log[k].args)
       /\ Len(log[k].results) = 2
       /\ Len(RankedList([log[k].args EXCEPT !.docName = NoDocName])) = 3

\* the 0-based places where the raw query occurs in a content, letter case set aside
Occurrences(content, query) ==
    {p \in 0..(Len(content) - Len(query)) :
        \A i \in 1..Len(query) : LowerChar(content[p + i]) = LowerChar(query[i])}

\* an excerpt without its emphasis markers (no content of the corpora holds a "*")
Unmarked(text) == SelectSeq(text, LAMBDA c : c # "*")

\* the results of the returned calls, each with the query of its call
ReturnedResults ==
    UNION {{[query |-> log[k].args.query, result |-> log[k].results[i]] :
               i \in 1..Len(log[k].results)} : k \in Returned}

\* C15: excerpt window.  When the raw query occurs in the content, first at p, the
\* excerpt is built from the slice [max(0, p - 400), min(length, p + |query| + 400))
\* of the content; when it does not occur, the excerpt is an unhighlighted window of
\* the content that starts at offset 0.
C15_ExcerptWindow ==
    \A x \in ReturnedResults :
       LET content == Lookup(docStore, x.result.path).content
           occ == Occurrences(content, x.query)
       IN IF occ # {}
          THEN Unmarked(x.result.excerpt)
                  = SubSeq(content, Max2(0, Min(occ) - 400) + 1,
                           Min2(Len(content), Min(occ) + Len(x.query) + 400))
          ELSE /\ x.result.excerpt = SubSeq(content, 1, Len(x.result.excerpt))
               /\ content # <<>> => x.result.excerpt # <<>>

\* an excerpt cut at both ends: the query occurs past place 400 of a content that
\* goes on for more than 400 characters after it
C15_Witness ==
    \E x \in ReturnedResults :
       LET content == Lookup(docStore, x.result.path).content
           occ == Occurrences(content, x.query)
       IN /\ occ # {}
          /\ Min(occ) > 400
          /\ Min(occ) + Len(x.query) + 400 < Len(content)
          /\ Len(Unmarked(x.result.excerpt)) = Len(x.query) + 800

RECURSIVE WrapLiteral(_, _, _)
\* the text from place from on, with every occurrence of the query as a literal
\* string wrapped in the emphasis marker
WrapLiteral(text, query, from) ==
    LET ms == {p \in from..(Len(text) - Len(query) + 1) :
                  toLowerCase(SubSeq(text, p, p + Len(query) - 1)) = toLowerCase(query)}
    IN IF ms = {} THEN SubSeq(text, from, Len(text))
       ELSE SubSeq(text, from, Min(ms) - 1)
            \o <<"*", "*">> \o SubSeq(text, Min(ms), Min(ms) + Len(query) - 1) \o <<"*", "*">>
            \o WrapLiteral(text, query, Min(ms) + Len(query))

\* C16: excerpt highlighting.  In every returned excerpt the occurrences of the raw
\* query as a literal string, letter case set aside, are wrapped in ** and no other
\* text is, whatever characters the query holds.
C16_OnlyLiteralOccurrencesWrapped ==
    \A x \in ReturnedResults :
       x.result.excerpt = WrapLiteral(Unmarked(x.result.excerpt), x.query, 1)

StoreIds(store) == {store.entries[i].path : i \in 1..Len(store.entries)}

\* C18: every build is a full replacement.  When a buildIndex call has completed, the
\* docStore in memory holds exactly the documents that call loaded, and the index
\* refers to no other document.
C18_FullReplacement ==
    \A b \in Builders :
       builds[b].pc = "resolved"
          => /\ StoreIds(docStore) = StoreIds(builds[b].built.docStore)
             /\ IndexRefs(index) \subseteq StoreIds(builds[b].built.docStore)

\* the entries of the filtered ranked list at the places offset .. offset +
\* maxResults - 1, the first entry being at place 0
EntriesAt(full, offset, maxResults) ==
    LET lo == Max2(offset, 0) + 1
        hi == Min2(offset + maxResults, Len(full))
    IN IF lo > hi THEN <<>> ELSE SubSeq(full, lo, hi)

\* C20: a call never returns more than maxResults results, and what it returns are the
\* entries of the filtered ranked list at the places offset .. offset + maxResults - 1,
\* for any integers offset and maxResults, negative ones included.
C20_PageWithinBounds ==
    \A k \in Returned :
       LET a == log[k].args
           want == EntriesAt(RankedList(a), a.offset, a.maxResults)
       IN /\ Len(log[k].results) <= Max2(a.maxResults, 0)
          /\ Len(log[k].results) = Len(want)
          /\ \A i \in 1..Len(want) : log[k].results[i].path = want[i].ref

\* C19: crawl_docs crawls every enabled doc that has no crawl record, with force it
\* crawls every enabled doc whatever records or config file exist, and it never
\* crawls a doc that is not enabled.
C19_CrawlsEnabledDocs ==
    \A i \in 1..Len(crawl.decisions) :
       LET d == crawl.decisions[i]
       IN d.crawled <=> (d.enabled /\ (crawl.force \/ ~d.hadRecord))

\* C21: overlapping builds and the snapshot.  Once every buildIndex call in flight
\* has completed with a successful save, the snapshot file parses and is the record
\* of the index and the docStore the engine holds: not an older generation, not a
\* mix of two saves.  Calls that follow one another satisfy this as well, the later
\* save truncating and rewriting what the earlier one left.
C21_SnapshotIsMemoryGeneration ==
    (\A b \in Builders : builds[b].pc = "resolved")
       => /\ file.exists
          /\ Parses(file.text)
          /\ file.text = Stringify(index, docStore)

====
